---- MODULE Spec2Model ----
(***************************************************************************)
(* Model of agc.py: OTU clustering of amplicon reads.                      *)
(*   read_fasta -> dereplication_fulllength -> abundance_greedy_clustering *)
(*   (nw.global_align + get_identity) -> write_OTU                         *)
(*                                                                         *)
(* A string is a sequence of one-character strings.  A percentage is the   *)
(* exact fraction <<numerator, denominator>>; the comparison with the      *)
(* threshold is done by cross-multiplication.                              *)
(***************************************************************************)
EXTENDS Integers, Sequences, FiniteSets

VARIABLES
    file,             \* the lines of the decompressed amplicon file
    minseqlen,        \* -s
    mincount,         \* -m
    pc,               \* position of the run
    lineno,           \* read_fasta: index of the next line of the file
    sequence,         \* read_fasta: the accumulating sequence
    yielded,          \* every value read_fasta has yielded, in order
    sequence_counts,  \* dereplication_fulllength: the Counter, first-seen order
    common,           \* dereplication_fulllength: sequence_counts.most_common()
    k,                \* index of the next item of the stream being consumed
    cands,            \* every [sequence, count] dereplication has yielded
    cand,             \* abundance_greedy_clustering: current [sequence, count]
    j,                \* abundance_greedy_clustering: index of the next OTU to scan
    otus,             \* abundance_greedy_clustering: the OTU list
    alignment,        \* last value returned by nw.global_align
    identity,         \* last value returned by get_identity
    nwmemo,           \* what the aligner returned for each pair it was given
    naligns,          \* number of calls of nw.global_align
    output,           \* the lines of the output file
    w,                \* write_OTU: position in OTU_list (from 0)
    pass,             \* 1: the run of the program; 2: clustering of its own output
    first_otus        \* the OTU list returned by the run of the program

vars == <<file, minseqlen, mincount, pc, lineno, sequence, yielded,
          sequence_counts, common, k, cands, cand, j, otus, alignment,
          identity, nwmemo, naligns, output, w, pass, first_otus>>

----------------------------------------------------------------------------
(* Bounds *)

MaxLines == 5        \* lines in the input file
MaxMinCount == 2     \* mincount ranges over 1..MaxMinCount
MaxShift == 1        \* offsets the aligner may give its first argument
MaxAlnLen == 3       \* length of the alignments given to get_identity alone

(* Program constants *)

IdentityThreshold == 97     \* agc.py:160
WrapWidth == 80             \* agc.py:177
EnumerateStart == 1         \* agc.py:175

----------------------------------------------------------------------------
(* Strings *)

Rep(c, n) == [i \in 1..n |-> c]

Min(a, b) == IF a < b THEN a ELSE b
Max(a, b) == IF a > b THEN a ELSE b

\* The characters str.strip() removes (those str.isspace() accepts):
\* \t \n \v \f \r, U+001C..U+001F, space, U+0085, U+00A0, U+1680,
\* U+2000..U+200A, U+2028, U+2029, U+202F, U+205F, U+3000.
Whitespace ==
    { 9, 10, 11, 12, 13, 28, 29, 30, 31, 32, 133, 160, 5760,
      8192, 8193, 8194, 8195, 8196, 8197, 8198, 8199, 8200, 8201, 8202,
      8232, 8233, 8239, 8287, 12288 }

\* Index of the first c of line, 0 when there is none.
FirstIndex(line, c) ==
    IF \E i \in 1..Len(line) : line[i] = c
    THEN CHOOSE i \in 1..Len(line) : line[i] = c /\ \A i2 \in 1..(i - 1) : line[i2] # c
    ELSE 0

\* Index of the last c among the first n characters of line, 0 when none.
LastIndex(line, c, n) ==
    LET m == Min(n, Len(line))
    IN  IF \E i \in 1..m : line[i] = c
        THEN CHOOSE i \in 1..m : line[i] = c /\ \A i2 \in (i + 1)..m : line[i2] # c
        ELSE 0

RECURSIVE lstrip(_)
lstrip(s) ==
    IF s # <<>> /\ Head(s) \in Whitespace THEN lstrip(Tail(s)) ELSE s

RECURSIVE rstrip(_)
rstrip(s) ==
    IF s # <<>> /\ s[Len(s)] \in Whitespace
    THEN rstrip(SubSeq(s, 1, Len(s) - 1)) ELSE s

\* A line with its line terminator removed and nothing else.
strip_terminator_only(line) ==
    IF line # <<>> /\ line[Len(line)] = 10    \* "\n"
    THEN SubSeq(line, 1, Len(line) - 1) ELSE line

\* str.strip(): drops every leading and trailing whitespace character.
strip(line) == rstrip(lstrip(line))

startswith(line, c) == Len(line) >= 1 /\ line[1] = c

----------------------------------------------------------------------------
(* read_fasta *)

long_enough_off_by_one(s, n) == Len(s) + 1 >= n
long_enough(s, n) == Len(s) >= n

\* Counter: one more occurrence of s; a new key goes last.
RECURSIVE counter_add(_, _)
counter_add(counts, s) ==
    IF counts = <<>> THEN << <<s, 1>> >>
    ELSE IF Head(counts)[1] = s
         THEN << <<s, Head(counts)[2] + 1>> >> \o Tail(counts)
         ELSE << Head(counts) >> \o counter_add(Tail(counts), s)

\* Insert item after every entry whose count is at least its own.
RECURSIVE insert_by_count(_, _)
insert_by_count(sorted, item) ==
    IF sorted = <<>> THEN << item >>
    ELSE IF Head(sorted)[2] >= item[2]
         THEN << Head(sorted) >> \o insert_by_count(Tail(sorted), item)
         ELSE << item >> \o sorted

RECURSIVE stable_sort_desc(_, _)
stable_sort_desc(acc, items) ==
    IF items = <<>> THEN acc
    ELSE stable_sort_desc(insert_by_count(acc, Head(items)), Tail(items))

\* Counter.most_common(): sorted(items, key=count, reverse=True), stable.
most_common_unsorted(counts) == counts
most_common(counts) == stable_sort_desc(<<>>, counts)

\* if count >= mincount: yield [sequence, count]
passes_mincount(count, n) == count >= n

----------------------------------------------------------------------------
(* nw.global_align and get_identity *)

\* The aligner is a library outside the program.  It returns two strings of
\* the same length, each argument with gap characters added; the outcomes
\* kept here put the first argument at an offset 0..MaxShift against the
\* second and pad both ends with gaps.
Shape(a, b, d) ==
    LET n == Max(d + Len(a), Len(b))
    IN  << Rep(45, d) \o a \o Rep(45, n - d - Len(a)),    \* "-"
           b \o Rep(45, n - Len(b)) >>    \* "-"

NWOutcomes(a, b) == { Shape(a, b, d) : d \in 0..MaxShift }

\* A deterministic aligner: the same arguments give the same alignment.
nw_global_align_fresh(memo, a, b) == NWOutcomes(a, b)
nw_global_align(memo, a, b) ==
    IF \E m \in memo : m[1] = a /\ m[2] = b
    THEN { m[3] : m \in { x \in memo : x[1] = a /\ x[2] = b } }
    ELSE NWOutcomes(a, b)

\* sum(1 for a, b in zip(sequence1, sequence2) if a == b), over the
\* positions lo..hi of the zip (summed by halves).
RECURSIVE zip_sum(_, _, _, _)
zip_sum(s1, s2, lo, hi) ==
    IF lo > hi THEN 0
    ELSE IF lo = hi THEN (IF s1[lo] = s2[lo] THEN 1 ELSE 0)
    ELSE LET mid == (lo + hi) \div 2
         IN  zip_sum(s1, s2, lo, mid) + zip_sum(s1, s2, mid + 1, hi)

\* zip stops at the end of the shorter string.
zip_matches(s1, s2) == zip_sum(s1, s2, 1, Min(Len(s1), Len(s2)))

RECURSIVE zip_sum_no_gap(_, _, _, _)
zip_sum_no_gap(s1, s2, lo, hi) ==
    IF lo > hi THEN 0
    ELSE IF lo = hi THEN (IF s1[lo] = s2[lo] /\ s1[lo] # 45 THEN 1 ELSE 0)    \* "-"
    ELSE LET mid == (lo + hi) \div 2
         IN  zip_sum_no_gap(s1, s2, lo, mid) + zip_sum_no_gap(s1, s2, mid + 1, hi)

zip_matches_no_gap(s1, s2) == zip_sum_no_gap(s1, s2, 1, Min(Len(s1), Len(s2)))

\* matches / len(sequence1) raises when the first string is empty.
ZeroDivisionError == "ZeroDivisionError"
divides_by_zero(alignment_list) == Len(alignment_list[1]) = 0

\* (matches / len(sequence1)) * 100, as the fraction <<matches * 100, len>>.
get_identity_no_gap(alignment_list) ==
    IF divides_by_zero(alignment_list) THEN ZeroDivisionError
    ELSE << zip_matches_no_gap(alignment_list[1], alignment_list[2]) * 100,
            Len(alignment_list[1]) >>
get_identity(alignment_list) ==
    IF divides_by_zero(alignment_list) THEN ZeroDivisionError
    ELSE << zip_matches(alignment_list[1], alignment_list[2]) * 100,
            Len(alignment_list[1]) >>

\* identity >= 97
threshold_reached_strict(id) == id[1] > IdentityThreshold * id[2]
threshold_reached(id) == id[1] >= IdentityThreshold * id[2]

\* A candidate that matches an OTU is dropped: the OTU list is not touched.
absorb_merge(list, i, count) ==
    [list EXCEPT ![i] = << list[i][1], list[i][2] + count >>]
absorb(list, i, count) == list

\* otus.append([sequence, count])
otus_prepend(list, item) == << item >> \o list
otus_append(list, item) == Append(list, item)

\* for otu, _ in otus: the scan goes over the whole list, first to last.
scan_end_skip_last(list) == Max(Len(list) - 1, 0)
scan_end(list) == Len(list)

----------------------------------------------------------------------------
(* write_OTU *)

RECURSIVE Digits(_)
Digits(n) ==
    LET d == << 48 + (n % 10) >>    \* "0".."9"
    IN  IF n < 10 THEN d ELSE Digits(n \div 10) \o d

\* enumerate(OTU_list, 1): the element at position p (from 0) has index p + 1.
enumerate_index_from_zero(p) == p
enumerate_index(p) == p + EnumerateStart

\* ">OTU_"
HeaderPrefix == <<62, 79, 84, 85, 95>>
\* " occurrence:"
HeaderMiddle == <<32, 111, 99, 99, 117, 114, 114, 101, 110, 99, 101, 58>>

\* f">OTU_{i} occurrence:{count}\n"
otu_header(i, count) ==
    HeaderPrefix \o Digits(i) \o HeaderMiddle \o Digits(count) \o <<10>>    \* "\n"

(* textwrap.wrap(text, width) with the defaults of TextWrapper: tabs are    *)
(* expanded, whitespace becomes spaces, the text is split into chunks      *)
(* (runs of spaces, words, parts of hyphenated words, dashes), and the     *)
(* chunks fill the lines; a chunk longer than a line is cut.               *)

\* textwrap._whitespace: \t \n \v \f \r and the space
TextwrapWhitespace == {9, 10, 11, 12, 13, 32}

\* The ranges of the code points that \d of a str pattern matches.
DecimalDigitRanges ==
{
    <<48, 57>>, <<1632, 1641>>, <<1776, 1785>>, <<1984, 1993>>,
    <<2406, 2415>>, <<2534, 2543>>, <<2662, 2671>>, <<2790, 2799>>,
    <<2918, 2927>>, <<3046, 3055>>, <<3174, 3183>>, <<3302, 3311>>,
    <<3430, 3439>>, <<3558, 3567>>, <<3664, 3673>>, <<3792, 3801>>,
    <<3872, 3881>>, <<4160, 4169>>, <<4240, 4249>>, <<6112, 6121>>,
    <<6160, 6169>>, <<6470, 6479>>, <<6608, 6617>>, <<6784, 6793>>,
    <<6800, 6809>>, <<6992, 7001>>, <<7088, 7097>>, <<7232, 7241>>,
    <<7248, 7257>>, <<42528, 42537>>, <<43216, 43225>>, <<43264, 43273>>,
    <<43472, 43481>>, <<43504, 43513>>, <<43600, 43609>>, <<44016, 44025>>,
    <<65296, 65305>>, <<66720, 66729>>, <<68912, 68921>>, <<69734, 69743>>,
    <<69872, 69881>>, <<69942, 69951>>, <<70096, 70105>>, <<70384, 70393>>,
    <<70736, 70745>>, <<70864, 70873>>, <<71248, 71257>>, <<71360, 71369>>,
    <<71472, 71481>>, <<71904, 71913>>, <<72016, 72025>>, <<72784, 72793>>,
    <<73040, 73049>>, <<73120, 73129>>, <<92768, 92777>>, <<92864, 92873>>,
    <<93008, 93017>>, <<120782, 120831>>, <<123200, 123209>>,
    <<123632, 123641>>, <<125264, 125273>>, <<130032, 130041>> }

\* The ranges of the code points that \w of a str pattern matches.
WordCharRanges ==
{
    <<48, 57>>, <<65, 90>>, <<95, 95>>, <<97, 122>>, <<170, 170>>,
    <<178, 179>>, <<181, 181>>, <<185, 186>>, <<188, 190>>, <<192, 214>>,
    <<216, 246>>, <<248, 705>>, <<710, 721>>, <<736, 740>>, <<748, 748>>,
    <<750, 750>>, <<880, 884>>, <<886, 887>>, <<890, 893>>, <<895, 895>>,
    <<902, 902>>, <<904, 906>>, <<908, 908>>, <<910, 929>>, <<931, 1013>>,
    <<1015, 1153>>, <<1162, 1327>>, <<1329, 1366>>, <<1369, 1369>>,
    <<1376, 1416>>, <<1488, 1514>>, <<1519, 1522>>, <<1568, 1610>>,
    <<1632, 1641>>, <<1646, 1647>>, <<1649, 1747>>, <<1749, 1749>>,
    <<1765, 1766>>, <<1774, 1788>>, <<1791, 1791>>, <<1808, 1808>>,
    <<1810, 1839>>, <<1869, 1957>>, <<1969, 1969>>, <<1984, 2026>>,
    <<2036, 2037>>, <<2042, 2042>>, <<2048, 2069>>, <<2074, 2074>>,
    <<2084, 2084>>, <<2088, 2088>>, <<2112, 2136>>, <<2144, 2154>>,
    <<2160, 2183>>, <<2185, 2190>>, <<2208, 2249>>, <<2308, 2361>>,
    <<2365, 2365>>, <<2384, 2384>>, <<2392, 2401>>, <<2406, 2415>>,
    <<2417, 2432>>, <<2437, 2444>>, <<2447, 2448>>, <<2451, 2472>>,
    <<2474, 2480>>, <<2482, 2482>>, <<2486, 2489>>, <<2493, 2493>>,
    <<2510, 2510>>, <<2524, 2525>>, <<2527, 2529>>, <<2534, 2545>>,
    <<2548, 2553>>, <<2556, 2556>>, <<2565, 2570>>, <<2575, 2576>>,
    <<2579, 2600>>, <<2602, 2608>>, <<2610, 2611>>, <<2613, 2614>>,
    <<2616, 2617>>, <<2649, 2652>>, <<2654, 2654>>, <<2662, 2671>>,
    <<2674, 2676>>, <<2693, 2701>>, <<2703, 2705>>, <<2707, 2728>>,
    <<2730, 2736>>, <<2738, 2739>>, <<2741, 2745>>, <<2749, 2749>>,
    <<2768, 2768>>, <<2784, 2785>>, <<2790, 2799>>, <<2809, 2809>>,
    <<2821, 2828>>, <<2831, 2832>>, <<2835, 2856>>, <<2858, 2864>>,
    <<2866, 2867>>, <<2869, 2873>>, <<2877, 2877>>, <<2908, 2909>>,
    <<2911, 2913>>, <<2918, 2927>>, <<2929, 2935>>, <<2947, 2947>>,
    <<2949, 2954>>, <<2958, 2960>>, <<2962, 2965>>, <<2969, 2970>>,
    <<2972, 2972>>, <<2974, 2975>>, <<2979, 2980>>, <<2984, 2986>>,
    <<2990, 3001>>, <<3024, 3024>>, <<3046, 3058>>, <<3077, 3084>>,
    <<3086, 3088>>, <<3090, 3112>>, <<3114, 3129>>, <<3133, 3133>>,
    <<3160, 3162>>, <<3165, 3165>>, <<3168, 3169>>, <<3174, 3183>>,
    <<3192, 3198>>, <<3200, 3200>>, <<3205, 3212>>, <<3214, 3216>>,
    <<3218, 3240>>, <<3242, 3251>>, <<3253, 3257>>, <<3261, 3261>>,
    <<3293, 3294>>, <<3296, 3297>>, <<3302, 3311>>, <<3313, 3314>>,
    <<3332, 3340>>, <<3342, 3344>>, <<3346, 3386>>, <<3389, 3389>>,
    <<3406, 3406>>, <<3412, 3414>>, <<3416, 3425>>, <<3430, 3448>>,
    <<3450, 3455>>, <<3461, 3478>>, <<3482, 3505>>, <<3507, 3515>>,
    <<3517, 3517>>, <<3520, 3526>>, <<3558, 3567>>, <<3585, 3632>>,
    <<3634, 3635>>, <<3648, 3654>>, <<3664, 3673>>, <<3713, 3714>>,
    <<3716, 3716>>, <<3718, 3722>>, <<3724, 3747>>, <<3749, 3749>>,
    <<3751, 3760>>, <<3762, 3763>>, <<3773, 3773>>, <<3776, 3780>>,
    <<3782, 3782>>, <<3792, 3801>>, <<3804, 3807>>, <<3840, 3840>>,
    <<3872, 3891>>, <<3904, 3911>>, <<3913, 3948>>, <<3976, 3980>>,
    <<4096, 4138>>, <<4159, 4169>>, <<4176, 4181>>, <<4186, 4189>>,
    <<4193, 4193>>, <<4197, 4198>>, <<4206, 4208>>, <<4213, 4225>>,
    <<4238, 4238>>, <<4240, 4249>>, <<4256, 4293>>, <<4295, 4295>>,
    <<4301, 4301>>, <<4304, 4346>>, <<4348, 4680>>, <<4682, 4685>>,
    <<4688, 4694>>, <<4696, 4696>>, <<4698, 4701>>, <<4704, 4744>>,
    <<4746, 4749>>, <<4752, 4784>>, <<4786, 4789>>, <<4792, 4798>>,
    <<4800, 4800>>, <<4802, 4805>>, <<4808, 4822>>, <<4824, 4880>>,
    <<4882, 4885>>, <<4888, 4954>>, <<4969, 4988>>, <<4992, 5007>>,
    <<5024, 5109>>, <<5112, 5117>>, <<5121, 5740>>, <<5743, 5759>>,
    <<5761, 5786>>, <<5792, 5866>>, <<5870, 5880>>, <<5888, 5905>>,
    <<5919, 5937>>, <<5952, 5969>>, <<5984, 5996>>, <<5998, 6000>>,
    <<6016, 6067>>, <<6103, 6103>>, <<6108, 6108>>, <<6112, 6121>>,
    <<6128, 6137>>, <<6160, 6169>>, <<6176, 6264>>, <<6272, 6276>>,
    <<6279, 6312>>, <<6314, 6314>>, <<6320, 6389>>, <<6400, 6430>>,
    <<6470, 6509>>, <<6512, 6516>>, <<6528, 6571>>, <<6576, 6601>>,
    <<6608, 6618>>, <<6656, 6678>>, <<6688, 6740>>, <<6784, 6793>>,
    <<6800, 6809>>, <<6823, 6823>>, <<6917, 6963>>, <<6981, 6988>>,
    <<6992, 7001>>, <<7043, 7072>>, <<7086, 7141>>, <<7168, 7203>>,
    <<7232, 7241>>, <<7245, 7293>>, <<7296, 7304>>, <<7312, 7354>>,
    <<7357, 7359>>, <<7401, 7404>>, <<7406, 7411>>, <<7413, 7414>>,
    <<7418, 7418>>, <<7424, 7615>>, <<7680, 7957>>, <<7960, 7965>>,
    <<7968, 8005>>, <<8008, 8013>>, <<8016, 8023>>, <<8025, 8025>>,
    <<8027, 8027>>, <<8029, 8029>>, <<8031, 8061>>, <<8064, 8116>>,
    <<8118, 8124>>, <<8126, 8126>>, <<8130, 8132>>, <<8134, 8140>>,
    <<8144, 8147>>, <<8150, 8155>>, <<8160, 8172>>, <<8178, 8180>>,
    <<8182, 8188>>, <<8304, 8305>>, <<8308, 8313>>, <<8319, 8329>>,
    <<8336, 8348>>, <<8450, 8450>>, <<8455, 8455>>, <<8458, 8467>>,
    <<8469, 8469>>, <<8473, 8477>>, <<8484, 8484>>, <<8486, 8486>>,
    <<8488, 8488>>, <<8490, 8493>>, <<8495, 8505>>, <<8508, 8511>>,
    <<8517, 8521>>, <<8526, 8526>>, <<8528, 8585>>, <<9312, 9371>>,
    <<9450, 9471>>, <<10102, 10131>>, <<11264, 11492>>, <<11499, 11502>>,
    <<11506, 11507>>, <<11517, 11517>>, <<11520, 11557>>, <<11559, 11559>>,
    <<11565, 11565>>, <<11568, 11623>>, <<11631, 11631>>, <<11648, 11670>>,
    <<11680, 11686>>, <<11688, 11694>>, <<11696, 11702>>, <<11704, 11710>>,
    <<11712, 11718>>, <<11720, 11726>>, <<11728, 11734>>, <<11736, 11742>>,
    <<11823, 11823>>, <<12293, 12295>>, <<12321, 12329>>, <<12337, 12341>>,
    <<12344, 12348>>, <<12353, 12438>>, <<12445, 12447>>, <<12449, 12538>>,
    <<12540, 12543>>, <<12549, 12591>>, <<12593, 12686>>, <<12690, 12693>>,
    <<12704, 12735>>, <<12784, 12799>>, <<12832, 12841>>, <<12872, 12879>>,
    <<12881, 12895>>, <<12928, 12937>>, <<12977, 12991>>, <<13312, 19903>>,
    <<19968, 42124>>, <<42192, 42237>>, <<42240, 42508>>, <<42512, 42539>>,
    <<42560, 42606>>, <<42623, 42653>>, <<42656, 42735>>, <<42775, 42783>>,
    <<42786, 42888>>, <<42891, 42954>>, <<42960, 42961>>, <<42963, 42963>>,
    <<42965, 42969>>, <<42994, 43009>>, <<43011, 43013>>, <<43015, 43018>>,
    <<43020, 43042>>, <<43056, 43061>>, <<43072, 43123>>, <<43138, 43187>>,
    <<43216, 43225>>, <<43250, 43255>>, <<43259, 43259>>, <<43261, 43262>>,
    <<43264, 43301>>, <<43312, 43334>>, <<43360, 43388>>, <<43396, 43442>>,
    <<43471, 43481>>, <<43488, 43492>>, <<43494, 43518>>, <<43520, 43560>>,
    <<43584, 43586>>, <<43588, 43595>>, <<43600, 43609>>, <<43616, 43638>>,
    <<43642, 43642>>, <<43646, 43695>>, <<43697, 43697>>, <<43701, 43702>>,
    <<43705, 43709>>, <<43712, 43712>>, <<43714, 43714>>, <<43739, 43741>>,
    <<43744, 43754>>, <<43762, 43764>>, <<43777, 43782>>, <<43785, 43790>>,
    <<43793, 43798>>, <<43808, 43814>>, <<43816, 43822>>, <<43824, 43866>>,
    <<43868, 43881>>, <<43888, 44002>>, <<44016, 44025>>, <<44032, 55203>>,
    <<55216, 55238>>, <<55243, 55291>>, <<63744, 64109>>, <<64112, 64217>>,
    <<64256, 64262>>, <<64275, 64279>>, <<64285, 64285>>, <<64287, 64296>>,
    <<64298, 64310>>, <<64312, 64316>>, <<64318, 64318>>, <<64320, 64321>>,
    <<64323, 64324>>, <<64326, 64433>>, <<64467, 64829>>, <<64848, 64911>>,
    <<64914, 64967>>, <<65008, 65019>>, <<65136, 65140>>, <<65142, 65276>>,
    <<65296, 65305>>, <<65313, 65338>>, <<65345, 65370>>, <<65382, 65470>>,
    <<65474, 65479>>, <<65482, 65487>>, <<65490, 65495>>, <<65498, 65500>>,
    <<65536, 65547>>, <<65549, 65574>>, <<65576, 65594>>, <<65596, 65597>>,
    <<65599, 65613>>, <<65616, 65629>>, <<65664, 65786>>, <<65799, 65843>>,
    <<65856, 65912>>, <<65930, 65931>>, <<66176, 66204>>, <<66208, 66256>>,
    <<66273, 66299>>, <<66304, 66339>>, <<66349, 66378>>, <<66384, 66421>>,
    <<66432, 66461>>, <<66464, 66499>>, <<66504, 66511>>, <<66513, 66517>>,
    <<66560, 66717>>, <<66720, 66729>>, <<66736, 66771>>, <<66776, 66811>>,
    <<66816, 66855>>, <<66864, 66915>>, <<66928, 66938>>, <<66940, 66954>>,
    <<66956, 66962>>, <<66964, 66965>>, <<66967, 66977>>, <<66979, 66993>>,
    <<66995, 67001>>, <<67003, 67004>>, <<67072, 67382>>, <<67392, 67413>>,
    <<67424, 67431>>, <<67456, 67461>>, <<67463, 67504>>, <<67506, 67514>>,
    <<67584, 67589>>, <<67592, 67592>>, <<67594, 67637>>, <<67639, 67640>>,
    <<67644, 67644>>, <<67647, 67669>>, <<67672, 67702>>, <<67705, 67742>>,
    <<67751, 67759>>, <<67808, 67826>>, <<67828, 67829>>, <<67835, 67867>>,
    <<67872, 67897>>, <<67968, 68023>>, <<68028, 68047>>, <<68050, 68096>>,
    <<68112, 68115>>, <<68117, 68119>>, <<68121, 68149>>, <<68160, 68168>>,
    <<68192, 68222>>, <<68224, 68255>>, <<68288, 68295>>, <<68297, 68324>>,
    <<68331, 68335>>, <<68352, 68405>>, <<68416, 68437>>, <<68440, 68466>>,
    <<68472, 68497>>, <<68521, 68527>>, <<68608, 68680>>, <<68736, 68786>>,
    <<68800, 68850>>, <<68858, 68899>>, <<68912, 68921>>, <<69216, 69246>>,
    <<69248, 69289>>, <<69296, 69297>>, <<69376, 69415>>, <<69424, 69445>>,
    <<69457, 69460>>, <<69488, 69505>>, <<69552, 69579>>, <<69600, 69622>>,
    <<69635, 69687>>, <<69714, 69743>>, <<69745, 69746>>, <<69749, 69749>>,
    <<69763, 69807>>, <<69840, 69864>>, <<69872, 69881>>, <<69891, 69926>>,
    <<69942, 69951>>, <<69956, 69956>>, <<69959, 69959>>, <<69968, 70002>>,
    <<70006, 70006>>, <<70019, 70066>>, <<70081, 70084>>, <<70096, 70106>>,
    <<70108, 70108>>, <<70113, 70132>>, <<70144, 70161>>, <<70163, 70187>>,
    <<70272, 70278>>, <<70280, 70280>>, <<70282, 70285>>, <<70287, 70301>>,
    <<70303, 70312>>, <<70320, 70366>>, <<70384, 70393>>, <<70405, 70412>>,
    <<70415, 70416>>, <<70419, 70440>>, <<70442, 70448>>, <<70450, 70451>>,
    <<70453, 70457>>, <<70461, 70461>>, <<70480, 70480>>, <<70493, 70497>>,
    <<70656, 70708>>, <<70727, 70730>>, <<70736, 70745>>, <<70751, 70753>>,
    <<70784, 70831>>, <<70852, 70853>>, <<70855, 70855>>, <<70864, 70873>>,
    <<71040, 71086>>, <<71128, 71131>>, <<71168, 71215>>, <<71236, 71236>>,
    <<71248, 71257>>, <<71296, 71338>>, <<71352, 71352>>, <<71360, 71369>>,
    <<71424, 71450>>, <<71472, 71483>>, <<71488, 71494>>, <<71680, 71723>>,
    <<71840, 71922>>, <<71935, 71942>>, <<71945, 71945>>, <<71948, 71955>>,
    <<71957, 71958>>, <<71960, 71983>>, <<71999, 71999>>, <<72001, 72001>>,
    <<72016, 72025>>, <<72096, 72103>>, <<72106, 72144>>, <<72161, 72161>>,
    <<72163, 72163>>, <<72192, 72192>>, <<72203, 72242>>, <<72250, 72250>>,
    <<72272, 72272>>, <<72284, 72329>>, <<72349, 72349>>, <<72368, 72440>>,
    <<72704, 72712>>, <<72714, 72750>>, <<72768, 72768>>, <<72784, 72812>>,
    <<72818, 72847>>, <<72960, 72966>>, <<72968, 72969>>, <<72971, 73008>>,
    <<73030, 73030>>, <<73040, 73049>>, <<73056, 73061>>, <<73063, 73064>>,
    <<73066, 73097>>, <<73112, 73112>>, <<73120, 73129>>, <<73440, 73458>>,
    <<73648, 73648>>, <<73664, 73684>>, <<73728, 74649>>, <<74752, 74862>>,
    <<74880, 75075>>, <<77712, 77808>>, <<77824, 78894>>, <<82944, 83526>>,
    <<92160, 92728>>, <<92736, 92766>>, <<92768, 92777>>, <<92784, 92862>>,
    <<92864, 92873>>, <<92880, 92909>>, <<92928, 92975>>, <<92992, 92995>>,
    <<93008, 93017>>, <<93019, 93025>>, <<93027, 93047>>, <<93053, 93071>>,
    <<93760, 93846>>, <<93952, 94026>>, <<94032, 94032>>, <<94099, 94111>>,
    <<94176, 94177>>, <<94179, 94179>>, <<94208, 100343>>,
    <<100352, 101589>>, <<101632, 101640>>, <<110576, 110579>>,
    <<110581, 110587>>, <<110589, 110590>>, <<110592, 110882>>,
    <<110928, 110930>>, <<110948, 110951>>, <<110960, 111355>>,
    <<113664, 113770>>, <<113776, 113788>>, <<113792, 113800>>,
    <<113808, 113817>>, <<119520, 119539>>, <<119648, 119672>>,
    <<119808, 119892>>, <<119894, 119964>>, <<119966, 119967>>,
    <<119970, 119970>>, <<119973, 119974>>, <<119977, 119980>>,
    <<119982, 119993>>, <<119995, 119995>>, <<119997, 120003>>,
    <<120005, 120069>>, <<120071, 120074>>, <<120077, 120084>>,
    <<120086, 120092>>, <<120094, 120121>>, <<120123, 120126>>,
    <<120128, 120132>>, <<120134, 120134>>, <<120138, 120144>>,
    <<120146, 120485>>, <<120488, 120512>>, <<120514, 120538>>,
    <<120540, 120570>>, <<120572, 120596>>, <<120598, 120628>>,
    <<120630, 120654>>, <<120656, 120686>>, <<120688, 120712>>,
    <<120714, 120744>>, <<120746, 120770>>, <<120772, 120779>>,
    <<120782, 120831>>, <<122624, 122654>>, <<123136, 123180>>,
    <<123191, 123197>>, <<123200, 123209>>, <<123214, 123214>>,
    <<123536, 123565>>, <<123584, 123627>>, <<123632, 123641>>,
    <<124896, 124902>>, <<124904, 124907>>, <<124909, 124910>>,
    <<124912, 124926>>, <<124928, 125124>>, <<125127, 125135>>,
    <<125184, 125251>>, <<125259, 125259>>, <<125264, 125273>>,
    <<126065, 126123>>, <<126125, 126127>>, <<126129, 126132>>,
    <<126209, 126253>>, <<126255, 126269>>, <<126464, 126467>>,
    <<126469, 126495>>, <<126497, 126498>>, <<126500, 126500>>,
    <<126503, 126503>>, <<126505, 126514>>, <<126516, 126519>>,
    <<126521, 126521>>, <<126523, 126523>>, <<126530, 126530>>,
    <<126535, 126535>>, <<126537, 126537>>, <<126539, 126539>>,
    <<126541, 126543>>, <<126545, 126546>>, <<126548, 126548>>,
    <<126551, 126551>>, <<126553, 126553>>, <<126555, 126555>>,
    <<126557, 126557>>, <<126559, 126559>>, <<126561, 126562>>,
    <<126564, 126564>>, <<126567, 126570>>, <<126572, 126578>>,
    <<126580, 126583>>, <<126585, 126588>>, <<126590, 126590>>,
    <<126592, 126601>>, <<126603, 126619>>, <<126625, 126627>>,
    <<126629, 126633>>, <<126635, 126651>>, <<127232, 127244>>,
    <<130032, 130041>>, <<131072, 173791>>, <<173824, 177976>>,
    <<177984, 178205>>, <<178208, 183969>>, <<183984, 191456>>,
    <<194560, 195101>>, <<196608, 201546>> }

\* \w, [^\d\W] and [\w!"'&.,?] of the word-separator pattern.
WordChars == UNION { (r[1])..(r[2]) : r \in WordCharRanges }
Letters == WordChars \ UNION { (r[1])..(r[2]) : r \in DecimalDigitRanges }
WordPunct == WordChars \cup {33, 34, 39, 38, 46, 44, 63}

IsIn(t, i, set) == i >= 1 /\ i <= Len(t) /\ t[i] \in set
IsHyphen(t, i) == IsIn(t, i, {45})    \* "-"

\* str.expandtabs(8): a tab becomes the spaces up to the next multiple of 8;
\* col is the column at the start of text.
RECURSIVE expandtabs(_, _)
expandtabs(text, col) ==
    LET i == FirstIndex(text, 9)    \* "\t"
        pre == SubSeq(text, 1, i - 1)
        breaks == { b \in 1..Len(pre) : pre[b] \in {10, 13} }    \* "\n", "\r"
        c == IF breaks = {}
             THEN col + Len(pre)
             ELSE Len(pre) - (CHOOSE b \in breaks : \A b2 \in breaks : b2 <= b)
    IN  IF i = 0 THEN text
        ELSE pre \o Rep(32, 8 - (c % 8))    \* " "
                 \o expandtabs(SubSeq(text, i + 1, Len(text)), 0)

\* TextWrapper._munge_whitespace
munge_whitespace(text) ==
    LET t == expandtabs(text, 0)
    IN  [i \in 1..Len(t) |-> IF t[i] \in TextwrapWhitespace THEN 32 ELSE t[i]]    \* " "

\* The hyphens s..r are two or more, follow a word or punctuation character
\* and come before a word character.
is_dash(t, s, r) ==
    /\ r >= s + 1
    /\ IsIn(t, s - 1, WordPunct)
    /\ IsIn(t, r + 1, WordChars)
    /\ \A i \in s..r : IsHyphen(t, i)

\* wordsep_re: a chunk ends after the character q of t, 1 <= q < Len(t):
\* where whitespace meets a word, after the hyphen of a hyphenated word,
\* after a dash, or before a dash.
chunk_ends_after(t, q) ==
    LET lt(i) == IsIn(t, i, Letters)
    IN  \/ (t[q] \in TextwrapWhitespace) # (t[q + 1] \in TextwrapWhitespace)
        \/ /\ t[q] = 45    \* "-"
           /\ \/ /\ (lt(q - 2) /\ lt(q - 1))
                       \/ (lt(q - 3) /\ IsHyphen(t, q - 2) /\ lt(q - 1))
                 /\ lt(q + 1)
                 /\ lt(q + 2) \/ (IsHyphen(t, q + 2) /\ lt(q + 3))
              \/ /\ IsHyphen(t, q - 1)
                 /\ \E b \in 2..(q - 1) : is_dash(t, b, q)
        \/ /\ t[q + 1] = 45    \* "-"
           /\ IsHyphen(t, q + 2)
           /\ \E r \in (q + 2)..(Len(t) - 1) : is_dash(t, q + 1, r)

\* TextWrapper._split: the chunks of t, in order.
split_chunks(t) ==
    LET ends == { q \in 1..(Len(t) - 1) : chunk_ends_after(t, q) }
                   \cup (IF t = <<>> THEN {} ELSE {Len(t)})
        nth(i) == CHOOSE e \in ends : Cardinality({ e2 \in ends : e2 <= e }) = i
        start(i) == IF i = 1 THEN 1 ELSE nth(i - 1) + 1
    IN  [i \in 1..Cardinality(ends) |-> SubSeq(t, start(i), nth(i))]

\* chunk.strip() == ''
is_blank(chunk) == \A i \in 1..Len(chunk) : chunk[i] \in Whitespace

\* The number of leading chunks that fit on a line already cur_len long.
RECURSIVE fitting(_, _, _)
fitting(chunks, cur_len, width) ==
    IF chunks # <<>> /\ cur_len + Len(Head(chunks)) <= width
    THEN 1 + fitting(Tail(chunks), cur_len + Len(Head(chunks)), width)
    ELSE 0

RECURSIVE join(_)
join(chunks) == IF chunks = <<>> THEN <<>> ELSE Head(chunks) \o join(Tail(chunks))

\* TextWrapper._handle_long_word: how much of the chunk goes on the line;
\* the cut is after the last hyphen that fits, if text comes before it.
long_word_end(chunk, space_left) ==
    LET hyphen == LastIndex(chunk, 45, space_left)    \* "-"
    IN  IF /\ Len(chunk) > space_left
           /\ hyphen > 1
           /\ \E i \in 1..(hyphen - 1) : chunk[i] # 45    \* "-"
        THEN hyphen ELSE space_left

\* TextWrapper._wrap_chunks; started: a line has already been produced.
RECURSIVE wrap_chunks(_, _, _)
wrap_chunks(chunks, started, width) ==
    IF chunks = <<>> THEN <<>>
    ELSE
      LET c0 == IF is_blank(chunks[1]) /\ started THEN Tail(chunks) ELSE chunks
          m == fitting(c0, 0, width)
          cur == SubSeq(c0, 1, m)
          rest == SubSeq(c0, m + 1, Len(c0))
          cut == rest # <<>> /\ Len(rest[1]) > width
          end == IF cut THEN long_word_end(rest[1], width - Len(join(cur))) ELSE 0
          cur2 == IF cut THEN Append(cur, SubSeq(rest[1], 1, end)) ELSE cur
          rest2 == IF cut
                   THEN << SubSeq(rest[1], end + 1, Len(rest[1])) >> \o Tail(rest)
                   ELSE rest
          cur3 == IF cur2 # <<>> /\ is_blank(cur2[Len(cur2)])
                  THEN SubSeq(cur2, 1, Len(cur2) - 1) ELSE cur2
      IN  IF cur3 # <<>>
          THEN << join(cur3) >> \o wrap_chunks(rest2, TRUE, width)
          ELSE wrap_chunks(rest2, started, width)

wrap(text, width) == wrap_chunks(split_chunks(munge_whitespace(text)), FALSE, width)

\* textwrap.fill(sequence, width=80) + "\n", as the lines it puts in the file.
fill_lines(text) ==
    LET pieces == wrap(text, WrapWidth)
    IN  IF pieces = <<>> THEN << <<10>> >>    \* "\n"
        ELSE [i \in 1..Len(pieces) |-> pieces[i] \o <<10>>]    \* "\n"

----------------------------------------------------------------------------
(* Input *)

\* ">r\n"
HeaderLine == <<62, 114, 10>>
\* 100 bases on one line.
LineLong == Rep(65, 100) \o <<10>>
\* 100 bases, 97 of them those of LineLong, between a space and a tab.
LineNear == <<32>> \o Rep(65, 97) \o Rep(67, 3) \o <<9, 10>>
\* "AC\n"
LineShort == <<65, 67, 10>>

LinePool == {HeaderLine, LineLong, LineNear, LineShort}

Files == UNION { [1..n -> LinePool] : n \in 0..MaxLines }

Init ==
    /\ file \in Files
    /\ minseqlen \in {0, 101}
    /\ mincount \in 1..MaxMinCount
    /\ pc = "read"
    /\ lineno = 1
    /\ sequence = <<>>
    /\ yielded = <<>>
    /\ sequence_counts = <<>>
    /\ common = <<>>
    /\ k = 1
    /\ cands = <<>>
    /\ cand = <<>>
    /\ j = 1
    /\ otus = <<>>
    /\ alignment = <<>>
    /\ identity = <<>>
    /\ nwmemo = {}
    /\ naligns = 0
    /\ output = <<>>
    /\ w = 0
    /\ pass = 1
    /\ first_otus = <<>>

----------------------------------------------------------------------------
(* read_fasta, consumed by Counter(...) in dereplication_fulllength *)

read_vars == <<file, minseqlen, mincount, pass, first_otus>>
cluster_vars == <<cand, j, otus, alignment, identity, nwmemo, naligns>>

\* if len(sequence) >= minseqlen: yield sequence
flush_yielded == IF long_enough(sequence, minseqlen)
                 THEN Append(yielded, sequence) ELSE yielded
flush_counts == IF long_enough(sequence, minseqlen)
                THEN counter_add(sequence_counts, sequence) ELSE sequence_counts

read_fasta_header ==
    /\ pc = "read"
    /\ lineno <= Len(file)
    /\ startswith(file[lineno], 62)    \* ">"
    /\ yielded' = flush_yielded
    /\ sequence_counts' = flush_counts
    /\ sequence' = <<>>
    /\ lineno' = lineno + 1
    /\ UNCHANGED <<read_vars, cluster_vars, pc, common, k, cands, output, w>>

read_fasta_body ==
    /\ pc = "read"
    /\ lineno <= Len(file)
    /\ ~startswith(file[lineno], 62)    \* ">"
    /\ sequence' = sequence \o strip(file[lineno])
    /\ lineno' = lineno + 1
    /\ UNCHANGED <<read_vars, cluster_vars, pc, yielded, sequence_counts,
                   common, k, cands, output, w>>

\* End of the file: the last flush; the Counter is complete and is sorted.
read_fasta_end ==
    /\ pc = "read"
    /\ lineno > Len(file)
    /\ yielded' = flush_yielded
    /\ sequence_counts' = flush_counts
    /\ common' = most_common(flush_counts)
    /\ k' = 1
    /\ pc' = "derep"
    /\ UNCHANGED <<read_vars, cluster_vars, sequence, lineno, cands, output, w>>

----------------------------------------------------------------------------
(* dereplication_fulllength, consumed by abundance_greedy_clustering *)

dereplication_yield ==
    /\ pc = "derep"
    /\ k <= Len(common)
    /\ passes_mincount(common[k][2], mincount)
    /\ cands' = Append(cands, common[k])
    /\ cand' = common[k]
    /\ j' = 1
    /\ k' = k + 1
    /\ pc' = "scan"
    /\ UNCHANGED <<read_vars, lineno, sequence, yielded, sequence_counts, common,
                   otus, alignment, identity, nwmemo, naligns, output, w>>

dereplication_skip ==
    /\ pc = "derep"
    /\ k <= Len(common)
    /\ ~passes_mincount(common[k][2], mincount)
    /\ k' = k + 1
    /\ UNCHANGED <<read_vars, cluster_vars, pc, lineno, sequence, yielded,
                   sequence_counts, common, cands, output, w>>

\* The stream is exhausted: abundance_greedy_clustering returns otus.
dereplication_end ==
    /\ pc = "derep"
    /\ k > Len(common)
    /\ pc' = "write"
    /\ w' = 0
    /\ UNCHANGED <<read_vars, cluster_vars, lineno, sequence, yielded,
                   sequence_counts, common, k, cands, output>>

----------------------------------------------------------------------------
(* abundance_greedy_clustering: the scan of the OTU list for one candidate *)

next_candidate == IF pass = 1 THEN "derep" ELSE "refeed"

scan_frame == <<read_vars, lineno, sequence, yielded, sequence_counts, common,
                k, cands, output, w>>

\* identity >= 97: is_otu = False; break
scan_match ==
    /\ pc = "scan"
    /\ j <= scan_end(otus)
    /\ \E aln \in nw_global_align(nwmemo, cand[1], otus[j][1]) :
          /\ ~divides_by_zero(aln)
          /\ threshold_reached(get_identity(aln))
          /\ alignment' = aln
          /\ identity' = get_identity(aln)
          /\ nwmemo' = nwmemo \cup { <<cand[1], otus[j][1], aln>> }
    /\ naligns' = naligns + 1
    /\ otus' = absorb(otus, j, cand[2])
    /\ pc' = next_candidate
    /\ UNCHANGED <<scan_frame, cand, j>>

\* identity < 97: the scan goes on; an exception of get_identity ends the run.
scan_miss ==
    /\ pc = "scan"
    /\ j <= scan_end(otus)
    /\ \E aln \in nw_global_align(nwmemo, cand[1], otus[j][1]) :
          /\ divides_by_zero(aln) \/ ~threshold_reached(get_identity(aln))
          /\ alignment' = aln
          /\ identity' = get_identity(aln)
          /\ nwmemo' = nwmemo \cup { <<cand[1], otus[j][1], aln>> }
          /\ pc' = IF divides_by_zero(aln) THEN "error" ELSE pc
          /\ j' = IF divides_by_zero(aln) THEN j ELSE j + 1
    /\ naligns' = naligns + 1
    /\ UNCHANGED <<scan_frame, cand, otus>>

\* The scan ended without a break: if is_otu: otus.append([sequence, count])
scan_append ==
    /\ pc = "scan"
    /\ j > scan_end(otus)
    /\ otus' = otus_append(otus, cand)
    /\ pc' = next_candidate
    /\ UNCHANGED <<scan_frame, cand, j, alignment, identity, nwmemo, naligns>>

----------------------------------------------------------------------------
(* write_OTU *)

write_frame == <<read_vars, cluster_vars, lineno, sequence, yielded,
                 sequence_counts, common, k, cands>>

write_OTU_record ==
    /\ pc = "write"
    /\ w < Len(otus)
    /\ output' = output
                 \o << otu_header(enumerate_index(w), otus[w + 1][2]) >>
                 \o fill_lines(otus[w + 1][1])
    /\ w' = w + 1
    /\ UNCHANGED <<write_frame, pc>>

write_OTU_end ==
    /\ pc = "write"
    /\ w >= Len(otus)
    /\ pc' = "done"
    /\ UNCHANGED <<write_frame, output, w>>

Next ==
    \/ read_fasta_header
    \/ read_fasta_body
    \/ read_fasta_end
    \/ dereplication_yield
    \/ dereplication_skip
    \/ dereplication_end
    \/ scan_match
    \/ scan_miss
    \/ scan_append
    \/ write_OTU_record
    \/ write_OTU_end

Spec == Init /\ [][Next]_vars

----------------------------------------------------------------------------
(* Clustering of the program's own output: the OTU list is the next stream *)

refeed_frame == <<file, minseqlen, mincount, lineno, sequence, yielded,
                  sequence_counts, common, cands, output, w>>

refeed_start ==
    /\ pc = "done"
    /\ pass = 1
    /\ first_otus' = otus
    /\ otus' = <<>>
    /\ pass' = 2
    /\ k' = 1
    /\ pc' = "refeed"
    /\ UNCHANGED <<refeed_frame, cand, j, alignment, identity, nwmemo, naligns>>

refeed_next ==
    /\ pc = "refeed"
    /\ k <= Len(first_otus)
    /\ cand' = first_otus[k]
    /\ j' = 1
    /\ k' = k + 1
    /\ pc' = "scan"
    /\ UNCHANGED <<refeed_frame, pass, first_otus, otus, alignment, identity,
                   nwmemo, naligns>>

refeed_end ==
    /\ pc = "refeed"
    /\ k > Len(first_otus)
    /\ pc' = "done2"
    /\ UNCHANGED <<refeed_frame, pass, first_otus, cluster_vars, k>>

NextIdem ==
    \/ Next
    \/ refeed_start
    \/ refeed_next
    \/ refeed_end

SpecIdem == Init /\ [][NextIdem]_vars

----------------------------------------------------------------------------
(* get_identity alone, on every pair of short strings *)

\* "A", "C" and the gap "-"
AlnAlphabet == {65, 67, 45}

AlnStrings == UNION { [1..n -> AlnAlphabet] : n \in 0..MaxAlnLen }

AlnPairs == AlnStrings \X AlnStrings

InitIdentity ==
    /\ pc = "identity"
    /\ alignment \in AlnPairs
    /\ identity = <<>>
    /\ file = <<>>
    /\ minseqlen = 0
    /\ mincount = 1
    /\ lineno = 1
    /\ sequence = <<>>
    /\ yielded = <<>>
    /\ sequence_counts = <<>>
    /\ common = <<>>
    /\ k = 1
    /\ cands = <<>>
    /\ cand = <<>>
    /\ j = 1
    /\ otus = <<>>
    /\ nwmemo = {}
    /\ naligns = 0
    /\ output = <<>>
    /\ w = 0
    /\ pass = 1
    /\ first_otus = <<>>

compute_identity ==
    /\ pc = "identity"
    /\ identity' = get_identity(alignment)
    /\ pc' = IF divides_by_zero(alignment) THEN "identity_error" ELSE "identity_done"
    /\ UNCHANGED <<file, minseqlen, mincount, lineno, sequence, yielded,
                   sequence_counts, common, k, cands, cand, j, otus, alignment,
                   nwmemo, naligns, output, w, pass, first_otus>>

NextIdentity == compute_identity

SpecIdentity == InitIdentity /\ [][NextIdentity]_vars

----------------------------------------------------------------------------
(* Definitions used to state the properties *)

IsPrefix(s, t) == Len(s) <= Len(t) /\ SubSeq(t, 1, Len(s)) = s

Seqs(list) == { list[i][1] : i \in 1..Len(list) }

Occurrences(list, x) == Cardinality({ i \in 1..Len(list) : list[i] = x })

NonIncreasing(list) ==
    \A a, b \in 1..Len(list) : a < b => list[a][2] >= list[b][2]

\* Number of columns where the two aligned strings carry the same character.
EqualColumns(aln) == Cardinality({ i \in 1..Len(aln[1]) : aln[1][i] = aln[2][i] })

Below97(aln) == 100 * EqualColumns(aln) < 97 * Len(aln[1])

Aligned(memo, a, b) == \E m \in memo : m[1] = a /\ m[2] = b

MemoAln(memo, a, b) == (CHOOSE m \in memo : m[1] = a /\ m[2] = b)[3]

\* The aligner was asked about (a, b) and the identity was below 97.
ComparedBelow(memo, a, b) == Aligned(memo, a, b) /\ Below97(MemoAln(memo, a, b))

\* The aligner was asked about (a, b) and the identity was 97 or more.
ComparedMatch(memo, a, b) == Aligned(memo, a, b) /\ ~Below97(MemoAln(memo, a, b))

\* The bodies of the records of a file: the text between two header lines,
\* each line without its terminator (raw) or stripped.
RECURSIVE BodiesFrom(_, _, _)
BodiesFrom(lines, acc, raw) ==
    IF lines = <<>> THEN << acc >>
    ELSE IF startswith(Head(lines), 62)    \* ">"
         THEN << acc >> \o BodiesFrom(Tail(lines), <<>>, raw)
         ELSE BodiesFrom(Tail(lines),
                         acc \o (IF raw THEN strip_terminator_only(Head(lines))
                                 ELSE strip(Head(lines))),
                         raw)

\* Bodies with only the line terminators removed.
RawBodies(f) == BodiesFrom(f, <<>>, TRUE)

\* Bodies as the reader accumulates them.
ReadBodies(f) == BodiesFrom(f, <<>>, FALSE)

RECURSIVE KeepLong(_, _)
KeepLong(list, n) ==
    IF list = <<>> THEN <<>>
    ELSE (IF Len(Head(list)) >= n THEN << Head(list) >> ELSE <<>>)
         \o KeepLong(Tail(list), n)

\* The value of the digit "0".."9", -1 for another character.
DigitVal(c) == IF c >= 48 /\ c <= 57 THEN c - 48 ELSE -1

RECURSIVE ParseNat(_, _)
ParseNat(chars, acc) ==
    IF chars = <<>> THEN acc
    ELSE IF DigitVal(Head(chars)) < 0 THEN -1
    ELSE ParseNat(Tail(chars), acc * 10 + DigitVal(Head(chars)))

IsHeaderLine(line) == startswith(line, 62)    \* ">"

\* <<index, count>> read back from ">OTU_<index> occurrence:<count>\n",
\* <<-1, -1>> when the line does not have that form.
ParseHeader(line) ==
    LET sp == FirstIndex(line, 32)    \* " "
        co == FirstIndex(line, 58)    \* ":"
    IN  IF /\ sp > 6 /\ co = sp + 11 /\ Len(line) > co + 1
           /\ SubSeq(line, 1, 5) = HeaderPrefix
           /\ SubSeq(line, sp, co) = HeaderMiddle
           /\ line[Len(line)] = 10    \* "\n"
        THEN << ParseNat(SubSeq(line, 6, sp - 1), 0),
                ParseNat(SubSeq(line, co + 1, Len(line) - 1), 0) >>
        ELSE << -1, -1 >>

Headers == SelectSeq(output, IsHeaderLine)

----------------------------------------------------------------------------
(* Properties *)

\* C1: when the scan of a candidate ends, the candidate is appended at the
\* end of the OTU list exactly when its identity with every OTU of the list
\* is strictly below 97; otherwise the list is unchanged, and the scan
\* stopped at the first OTU, in list order, whose identity is 97 or more.
C1_AppendIffAllBelow ==
    [][ (pc = "scan" /\ pc' # "scan") =>
          /\ (otus' = Append(otus, cand))
               <=> (\A i \in 1..Len(otus) :
                       ComparedBelow(nwmemo', cand[1], otus[i][1]))
          /\ (otus' # Append(otus, cand)) =>
               /\ otus' = otus
               /\ \E i \in 1..Len(otus) :
                     /\ ComparedMatch(nwmemo', cand[1], otus[i][1])
                     /\ \A h \in 1..(i - 1) :
                           ComparedBelow(nwmemo', cand[1], otus[h][1])
                     /\ \A l \in (i + 1)..Len(otus) :
                           ~Aligned(nwmemo', cand[1], otus[l][1]) ]_vars

\* A candidate was discarded on an identity of exactly 97 with the second OTU.
C1_Witness ==
    /\ pc = "derep"
    /\ Len(otus) >= 2
    /\ cand # <<>>
    /\ cand[1] \notin Seqs(otus)
    /\ identity # <<>>
    /\ identity[1] = 97 * identity[2]

\* C2: at every point of the run each OTU is one of the candidates of the
\* stream, with that candidate's count, and no step changes the count of an
\* OTU already in the list.
C2_FounderCount ==
    [][ /\ \A i \in 1..Len(otus') : \E n \in 1..Len(cands') : cands'[n] = otus'[i]
        /\ \A i \in 1..Len(otus) :
              i <= Len(otus') /\ otus'[i][2] = otus[i][2] ]_vars

\* A candidate with a positive count has been absorbed by an OTU.
C2_Witness ==
    /\ pc = "done"
    /\ otus # <<>>
    /\ \E n \in 1..Len(cands) :
          /\ cands[n][1] \notin Seqs(otus)
          /\ cands[n][2] >= 1
          /\ \E i \in 1..Len(otus) : ComparedMatch(nwmemo, cands[n][1], otus[i][1])

\* C3: every step leaves the OTU list a prefix of the next one; the list
\* grows by one entry, the current candidate at the end, and only once the
\* candidate has been compared with every OTU of the list without a match;
\* a non-empty list starts with the first candidate of the stream, which no
\* candidate exceeds in count, and its counts are non-increasing.
C3_AppendOnly ==
    [][ /\ IsPrefix(otus, otus')
        /\ (otus' # otus) =>
              /\ otus' = Append(otus, cand)
              /\ \A i \in 1..Len(otus) : ComparedBelow(nwmemo, cand[1], otus[i][1])
        /\ (otus' # <<>>) =>
              /\ otus'[1] = cands'[1]
              /\ \A n \in 1..Len(cands') : otus'[1][2] >= cands'[n][2]
              /\ NonIncreasing(otus') ]_vars

\* Several OTUs after at least one alignment, the first more abundant than
\* the last.
C3_Witness ==
    /\ pc = "done"
    /\ Len(otus) >= 2
    /\ otus[1][2] > otus[Len(otus)][2]
    /\ naligns >= 1

\* C4: every pair yielded by the dereplication has a count of at least
\* mincount, which is the number of times read_fasta yielded the sequence;
\* no sequence is yielded twice; the counts are non-increasing.
C4_Dereplication ==
    /\ \A n \in 1..Len(cands) :
          /\ cands[n][2] >= mincount
          /\ cands[n][2] = Occurrences(yielded, cands[n][1])
    /\ \A a, b \in 1..Len(cands) : a # b => cands[a][1] # cands[b][1]
    /\ NonIncreasing(cands)

\* The second pair of the stream is the sequence read first, with a smaller
\* count than the first pair, and read_fasta yielded more than these two.
C4_Witness ==
    /\ Len(cands) >= 2
    /\ yielded[1] = cands[2][1]
    /\ cands[1][2] > cands[2][2]
    /\ Len(yielded) > cands[1][2] + cands[2][2]

\* C5: every sequence read_fasta yields is at least minseqlen long, and so is
\* every sequence of the dereplicated stream and of the OTU list; a record
\* whose body is shorter than minseqlen is in neither of them.
C5_MinSeqLen ==
    /\ \A i \in 1..Len(yielded) : Len(yielded[i]) >= minseqlen
    /\ \A s \in Seqs(cands) \cup Seqs(otus) : Len(s) >= minseqlen
    /\ \A i \in 1..Len(RawBodies(file)) :
          Len(RawBodies(file)[i]) < minseqlen
             => RawBodies(file)[i] \notin Seqs(cands) \cup Seqs(otus)

\* A short record occurs often enough to pass mincount, both before a header
\* and at the end of the file, and a long record made it to the OTU list.
C5_Witness ==
    /\ pc = "done"
    /\ otus # <<>>
    /\ LET b == RawBodies(file)
       IN  /\ Len(b) >= 3
           /\ Len(b[1]) < minseqlen
           /\ Len(b[Len(b)]) < minseqlen
           /\ Occurrences(b, b[1]) >= mincount
           /\ Occurrences(b, b[1]) >= 2

\* C6: once the file is read, the values read_fasta yielded are the bodies
\* of the records with only their line terminators removed, those of length
\* minseqlen or more, in order.
C6_TerminatorsOnly ==
    (pc # "read") => yielded = KeepLong(RawBodies(file), minseqlen)

\* C7: get_identity of two aligned strings of the same length is 100 times
\* the number of columns carrying the same character in both, over the
\* length of the alignment; it is 100 for a string aligned with itself.
C7_Identity ==
    (/\ pc = "identity_done"
     /\ Len(alignment[1]) = Len(alignment[2])
     /\ Len(alignment[1]) > 0) =>
       /\ identity[1] * Len(alignment[1])
             = 100 * EqualColumns(alignment) * identity[2]
       /\ identity[2] > 0
       /\ (alignment[1] = alignment[2]) => identity[1] = 100 * identity[2]

\* A column with a gap on one side only, a column with a gap on both sides
\* and a column with the same base on both sides.
C7_Witness ==
    /\ pc = "identity_done"
    /\ Len(alignment[1]) = Len(alignment[2])
    /\ \E a, b, c \in 1..Len(alignment[1]) :
          /\ alignment[1][a] = 45 /\ alignment[2][a] # 45    \* "-"
          /\ alignment[1][b] = 45 /\ alignment[2][b] = 45    \* "-"
          /\ alignment[1][c] = 65 /\ alignment[2][c] = 65    \* "A"
    /\ identity[1] * 3 = 200 * identity[2]

\* C8: write_OTU has written one header line per OTU processed, and the
\* n-th header line carries the index n and the count of the n-th OTU; when
\* it returns there is one header line per OTU of the list.
C8_Headers ==
    (pc = "write" \/ pc = "done") =>
       /\ Len(Headers) = w
       /\ pc = "done" => Len(Headers) = Len(otus)
       /\ \A n \in 1..Len(Headers) :
             ParseHeader(Headers[n]) = << n, otus[n][2] >>

\* Two OTUs were written, one of them on more than one line.
C8_Witness ==
    /\ pc = "done"
    /\ Len(otus) >= 2
    /\ Len(output) > 2 * Len(otus)
    /\ otus[1][2] # otus[2][2]

\* No body of the file, as the reader accumulates it, is both minseqlen long
\* and mincount frequent.
NoSurvivor ==
    LET b == ReadBodies(file)
    IN  \A i \in 1..Len(b) :
           Len(b[i]) < minseqlen \/ Occurrences(b, b[i]) < mincount

\* C9: when the file is empty, or no body is both minseqlen long and mincount
\* frequent, the dereplication yields nothing, the OTU list stays empty, the
\* aligner is never called, the run never enters the scan or the error state,
\* and nothing is written.
C9_EmptyRun ==
    (file = <<>> \/ NoSurvivor) =>
       /\ cands = <<>>
       /\ otus = <<>>
       /\ naligns = 0
       /\ pc \in {"read", "derep", "write", "done"}
       /\ output = <<>>

\* C10: clustering the OTU list again returns the same OTU list, and every
\* OTU, aligned as the candidate against each OTU before it in the list,
\* has an identity strictly below 97.
C10_Idempotent ==
    /\ (pc = "done2") => otus = first_otus
    /\ (pc = "done" \/ pc = "done2") =>
          \A a, b \in 1..Len(otus) :
             a < b => ComparedBelow(nwmemo, otus[b][1], otus[a][1])

\* The second clustering ended on several OTUs after a run that absorbed a
\* candidate.
C10_Witness ==
    /\ pc = "done2"
    /\ Len(otus) >= 2
    /\ Len(cands) > Len(first_otus)

====
